---- MODULE Spec2Model ----
(***************************************************************************)
(* A model of mailer.py: the Mailer class (an imaplib.IMAP4_SSL session    *)
(* with folder/index based access and reconnect-on-abort retry).           *)
(*                                                                         *)
(* The Python call stack is modelled explicitly: every method is a frame   *)
(* with a program counter, every IMAP protocol call (LIST, SELECT, SEARCH, *)
(* FETCH) is one step that either answers or raises imaplib.IMAP4.abort,   *)
(* and an exception in flight unwinds the frames until a try body catches  *)
(* it.  The IMAP server is the environment: it holds a fixed account       *)
(* (folders with message counts), answers OK or NO, and may drop a session *)
(* at any protocol call; a dropped session aborts every later call.        *)
(*                                                                         *)
(* Environment assumptions (imaplib / the server, not code of mailer.py):  *)
(*   - connecting and logging in succeed;                                  *)
(*   - SELECT of a folder of the account succeeds;                         *)
(*   - FETCH of a sequence number outside 1..count answers NO;             *)
(*   - the account does not change while the model runs.                   *)
(***************************************************************************)
EXTENDS Integers, Sequences, FiniteSets, TLC

VARIABLES
    count,      \* server: folder name -> number of messages in it
    mailers,    \* heap of Mailer objects; mailers[1] is the caller's Mailer
    stack,      \* Python call stack of the caller's current operation
    ret,        \* value returned by the frame that was popped last
    exc,        \* exception in flight ("" when none)
    call,       \* the caller's current / last top-level call and its arguments
    result,     \* outcome of the last finished top-level call
    log,        \* protocol events of the current / last top-level call
    shared,     \* two-thread scenario: do both threads use one Mailer?
    tsel,       \* two-thread scenario: selected folder of each thread's session
    tpc,        \* two-thread scenario: position of each thread in get_messages
    tres        \* two-thread scenario: value each thread's get_messages returned

vars == <<count, mailers, stack, ret, exc, call, result, log>>
tvars == <<shared, tsel, tpc, tres>>
allvars == <<count, mailers, stack, ret, exc, call, result, log, shared, tsel, tpc, tres>>

(***************************************************************************)
(* Bounds                                                                  *)
(***************************************************************************)
MaxCount == 2     \* messages in INBOX
SentCount == 0    \* messages in Sent
MaxStep == 2      \* slice step: 1..MaxStep
MaxFaults == 1    \* sessions the server drops plus NO statuses it answers of
                  \* its own accord, during one top-level call

(***************************************************************************)
(* The account and the caller's inputs                                     *)
(***************************************************************************)
Folders == {"INBOX", "Sent"}            \* folders of the account
Names == Folders \cup {"Trash"}         \* names a caller may pass; "Trash" does not exist
NoSel == "-"                            \* no folder selected (imaplib state AUTH)
Ids == (0 - MaxCount - 1) .. MaxCount   \* msg_id arguments
SliceIds == 0 .. MaxCount               \* start / end arguments
Steps == 1 .. MaxStep

Account == [f \in Folders |-> IF f = "INBOX" THEN MaxCount ELSE SentCount]

Nil == [t |-> "nil", v |-> 0]
NoCall == [op |-> "none", name |-> "", a |-> 0, b |-> 0, step |-> 1, dead |-> FALSE]
NoResult == [kind |-> "none", val |-> Nil]

Max(x, y) == IF x >= y THEN x ELSE y
Min(x, y) == IF x <= y THEN x ELSE y

(***************************************************************************)
(* Mailer objects                                                          *)
(***************************************************************************)
\* Mailer.__init__ up to and including login: a fresh authenticated session
\* with no folder selected.
NewMailer(username, password, host, port, default_box) ==
    [alive |-> TRUE, sel |-> NoSel, username |-> username, password |-> password,
     host |-> host, port |-> port, default_box |-> default_box]

\* Mailer.copy: a new Mailer from self's username, password, host, port and
\* default_box.
copy(m) ==
    NewMailer(m.username, m.password, m.host, m.port, m.default_box)

\* The connection parameters of a Mailer.
Credentials(m) ==
    <<m.username, m.password, m.host, m.port, m.default_box>>

(***************************************************************************)
(* The IMAP server as the code sees it                                     *)
(***************************************************************************)
\* len(rv) for the status string 'NO' that Mailer.messages returns when the
\* search is not OK.
NOLen == 2

\* get_mailboxes, status OK: the folder names parsed from the LIST response.
ListNames == [t |-> "names", v |-> Folders]

\* get_mailboxes, status not OK: the empty list.
ListEmpty == [t |-> "names", v |-> {}]

\* Mutant of SeqNums: the search runs against the default folder of the
\* account instead of the selected one.
SeqNums_of_inbox(f) ==
    [t |-> "ids", v |-> [i \in 1 .. count["INBOX"] |-> i]]

\* Mailer.messages, status OK: the sequence numbers of the selected folder.
SeqNums(f) ==
    [t |-> "ids", v |-> IF f \in Folders THEN [i \in 1 .. count[f] |-> i] ELSE <<>>]

\* A status string returned in place of a value.
Status(rv) == [t |-> "status", v |-> rv]

\* len(self.messages): the number of sequence numbers, or the length of the
\* status string when the search was not OK.
LenMessages(msgs) == IF msgs.t = "ids" THEN Len(msgs.v) ELSE NOLen

\* Message(raw, mailbox=name): the Message-ID comes from the raw payload, which
\* is the payload of message n of the folder selected on the session.
Message(raw, mailbox) == [id |-> raw, mailbox_name |-> mailbox]

\* The raw payload of message n of folder f.
Raw(f, n) == <<f, n>>

\* Does sequence number n exist in folder f?
Exists(f, n) == f \in Folders /\ n >= 1 /\ n <= count[f]

\* An item of a FETCH response: a (header, payload) tuple ...
TupleItem(f, n) == [tuple |-> TRUE, raw |-> Raw(f, n)]
\* ... or the bytes that close the message's response (b')').
CloseItem(f) == [tuple |-> FALSE, raw |-> Raw(f, 0)]

\* The list imaplib returns for FETCH lo:hi: per message a tuple, followed by
\* a closing item where tr says so.
Closings(lo, hi) == {[i \in lo .. hi |-> closed] : closed \in BOOLEAN}

RECURSIVE FetchData(_, _, _, _)
FetchData(f, lo, hi, tr) ==
    IF lo > hi THEN <<>>
    ELSE <<TupleItem(f, lo)>> \o (IF tr[lo] THEN <<CloseItem(f)>> ELSE <<>>)
         \o FetchData(f, lo + 1, hi, tr)

\* slice_messages' comprehension: Message(data[1]) for every item of list_data
\* that is a tuple and whose position i in list_data (from 0) has i % step = 0.
\* Positions are 1-based here, so the test is (i - 1) % step = 0.
RECURSIVE SliceKeep(_, _, _, _)
SliceKeep(list_data, i, step, mailbox) ==
    IF i > Len(list_data) THEN <<>>
    ELSE (IF list_data[i].tuple /\ (i - 1) % step = 0
          THEN <<Message(list_data[i].raw, mailbox)>> ELSE <<>>)
         \o SliceKeep(list_data, i + 1, step, mailbox)

(***************************************************************************)
(* The call stack                                                          *)
(***************************************************************************)
Frame(fn, pc, self, name, a, b, step) ==
    [fn |-> fn, pc |-> pc, self |-> self, name |-> name, a |-> a, b |-> b,
     step |-> step, v |-> Nil]

Running == stack # <<>>
Top == stack[Len(stack)]
Self == mailers[Top.self]
At(fn, pc) == Running /\ exc = "" /\ Top.fn = fn /\ Top.pc = pc

\* The stack with the top frame changed.
Goto(pc) == [stack EXCEPT ![Len(stack)].pc = pc]
WithTop(f) == [stack EXCEPT ![Len(stack)] = f]
Popped == SubSeq(stack, 1, Len(stack) - 1)

\* Protocol events of the current call.
NumEvents(outcome) == Cardinality({i \in 1 .. Len(log) : log[i][2] = outcome})
NumFaults == NumEvents("abort") + NumEvents("NO")
Event(cmd) == <<cmd, IF Self.alive THEN "abort" ELSE "dead">>

\* A protocol call on self raises imaplib.IMAP4.abort: always on a dropped
\* session, and on a live one when the server drops it now.
MayAbort == ~Self.alive \/ NumFaults < MaxFaults
MayAnswer == Self.alive
MayAnswerNO == Self.alive /\ NumFaults < MaxFaults
Dropped == [mailers EXCEPT ![Top.self].alive = FALSE]
Selected(f) == [mailers EXCEPT ![Top.self].sel = IF f \in Folders THEN f ELSE NoSel]

\* The objects the caller still holds once the top-level call is over: its own
\* Mailer (none when its construction failed); the Mailers made by copy() are
\* dropped.
Held(ms, ok) == IF call.op = "Mailer" /\ ~ok THEN <<>> ELSE <<ms[1]>>

\* The top frame returns val; ms is the heap after the step.
Return(val, ms) ==
    IF Len(stack) = 1
    THEN /\ stack' = <<>>
         /\ result' = [kind |-> "return", val |-> val]
         /\ mailers' = Held(ms, TRUE)
         /\ ret' = Nil
         /\ exc' = ""
    ELSE /\ stack' = Popped
         /\ ret' = val
         /\ mailers' = ms
         /\ UNCHANGED <<result, exc>>

\* The top frame raises e outside any try body of its own.
Raise(e, ms) ==
    IF Len(stack) = 1
    THEN /\ stack' = <<>>
         /\ result' = [kind |-> "raise", val |-> [t |-> "exc", v |-> e]]
         /\ mailers' = Held(ms, FALSE)
         /\ ret' = Nil
         /\ exc' = ""
    ELSE /\ stack' = Popped
         /\ exc' = e
         /\ ret' = Nil
         /\ mailers' = ms
         /\ UNCHANGED result

\* The frames whose top-level statement is a try ... except imaplib.IMAP4.abort
\* and the positions at which they wait for a callee inside the try body.
InTry(f) ==
    \/ f.fn = "get_messages" /\ f.pc \in {"check", "reselect"}
    \/ f.fn = "get_message" /\ f.pc \in {"check", "add"}
    \/ f.fn = "slice_messages" /\ f.pc \in {"check", "addstart", "addend", "clamped"}

\* An exception leaves a callee: the caller catches an abort raised inside
\* its try body, anything else goes on to the caller's caller.
Unwind ==
    /\ Running /\ exc # ""
    /\ IF exc = "abort" /\ InTry(Top)
       THEN /\ stack' = Goto("handler")
            /\ exc' = ""
            /\ UNCHANGED <<mailers, ret, result>>
       ELSE Raise(exc, mailers)
    /\ UNCHANGED <<tvars, count, call, log>>

(***************************************************************************)
(* Steps shared by several methods                                         *)
(***************************************************************************)
Logged(ev) == log' = Append(log, ev)

\* `self.mailboxes` evaluated in a method: call get_mailboxes on self.
CallMailboxes(fn) ==
    /\ At(fn, "mailboxes")
    /\ stack' = Append(Goto("check"), Frame("get_mailboxes", "list", Top.self, "", 0, 0, 1))
    /\ UNCHANGED <<tvars, count, mailers, ret, exc, call, result, log>>

\* `self.messages` evaluated in a method: call the property on self.
CallMessages(fn, pc, next) ==
    /\ At(fn, pc)
    /\ stack' = Append(Goto(next), Frame("messages", "search", Top.self, "", 0, 0, 1))
    /\ UNCHANGED <<tvars, count, mailers, ret, exc, call, result, log>>

\* `if mailbox_name in self.mailboxes: self.select(mailbox_name)` answered.
SelectMailbox(fn, next) ==
    /\ At(fn, "check")
    /\ Top.name \in ret.v
    /\ MayAnswer
    /\ mailers' = Selected(Top.name)
    /\ stack' = Goto(next)
    /\ UNCHANGED <<tvars, count, ret, exc, call, result, log>>

\* A protocol call inside the method's try body raises abort: the except
\* clause of the method is entered.
AbortInTry(fn, pc, cmd) ==
    /\ At(fn, pc)
    /\ MayAbort
    /\ mailers' = Dropped
    /\ Logged(Event(cmd))
    /\ stack' = Goto("handler")
    /\ UNCHANGED <<tvars, count, ret, exc, call, result>>

\* `self.select(self.default_box); return v` answered.
SelectDefaultAndReturn(fn, v) ==
    /\ At(fn, "reselect")
    /\ MayAnswer
    /\ Return(v, Selected(Self.default_box))
    /\ UNCHANGED <<tvars, count, call, log>>

\* Mutant of Copy: the Mailer reconnects in place, the new session replaces
\* its own.
Copy_reconnects_self ==
    /\ Running /\ exc = "" /\ Top.pc = "handler"
    /\ mailers' = [mailers EXCEPT ![Top.self] = copy(Self)]
    /\ stack' = Append(Goto("retry"),
                       Frame("__init__", "mailboxes", Top.self, "", 0, 0, 1))
    /\ Logged(<<"copy", "new">>)
    /\ UNCHANGED <<tvars, count, ret, exc, call, result>>

\* `self.copy()` in an except clause: Mailer.copy makes the new object and its
\* __init__ runs.
Copy ==
    /\ Running /\ exc = "" /\ Top.pc = "handler"
    /\ mailers' = Append(mailers, copy(Self))
    /\ stack' = Append(Goto("retry"),
                       Frame("__init__", "mailboxes", Len(mailers) + 1, "", 0, 0, 1))
    /\ Logged(<<"copy", "new">>)
    /\ UNCHANGED <<tvars, count, ret, exc, call, result>>

\* `return self.copy().method(args)`: the method runs on the new Mailer and
\* its value is this frame's value.
Retry(fn, pc, a, b) ==
    /\ At(fn, "retry")
    /\ stack' = WithTop(Frame(fn, pc, ret.v, Top.name, a, b, Top.step))
    /\ UNCHANGED <<tvars, count, mailers, ret, exc, call, result, log>>

(***************************************************************************)
(* Mailer.__init__                                                         *)
(***************************************************************************)
InitMailboxes ==
    /\ At("__init__", "mailboxes")
    /\ CallMailboxes("__init__")

\* Mutant of InitSelect: the constructor returns without selecting the default
\* folder.
InitSelect_without_select ==
    /\ At("__init__", "check")
    /\ Self.default_box \in ret.v
    /\ MayAnswer
    /\ Return([t |-> "mailer", v |-> Top.self], mailers)
    /\ UNCHANGED <<tvars, count, call, log>>

\* default_box is in self.mailboxes and select(default_box) answers.
InitSelect ==
    /\ At("__init__", "check")
    /\ Self.default_box \in ret.v
    /\ MayAnswer
    /\ Return([t |-> "mailer", v |-> Top.self], Selected(Self.default_box))
    /\ UNCHANGED <<tvars, count, call, log>>

\* select(default_box) aborts: __init__ has no handler for it.
InitSelectAbort ==
    /\ At("__init__", "check")
    /\ Self.default_box \in ret.v
    /\ MayAbort
    /\ Logged(Event("select"))
    /\ Raise("abort", Dropped)
    /\ UNCHANGED <<tvars, count, call>>

\* default_box is not in self.mailboxes.
InitInvalid ==
    /\ At("__init__", "check")
    /\ Self.default_box \notin ret.v
    /\ Raise("ValueError:default_box", mailers)
    /\ UNCHANGED <<tvars, count, call, log>>

(***************************************************************************)
(* Mailer.get_mailboxes                                                    *)
(***************************************************************************)
MailboxesList ==
    /\ At("get_mailboxes", "list")
    /\ MayAnswer
    /\ Return(ListNames, mailers)
    /\ UNCHANGED <<tvars, count, call, log>>

MailboxesListNO ==
    /\ At("get_mailboxes", "list")
    /\ MayAnswerNO
    /\ Logged(<<"list", "NO">>)
    /\ Return(ListEmpty, mailers)
    /\ UNCHANGED <<tvars, count, call>>

MailboxesListAbort ==
    /\ At("get_mailboxes", "list")
    /\ AbortInTry("get_mailboxes", "list", "list")

MailboxesRetry ==
    /\ At("get_mailboxes", "retry")
    /\ Retry("get_mailboxes", "list", 0, 0)

(***************************************************************************)
(* Mailer.messages (property)                                              *)
(***************************************************************************)
MessagesSearch ==
    /\ At("messages", "search")
    /\ MayAnswer
    /\ Return(SeqNums(Self.sel), mailers)
    /\ UNCHANGED <<tvars, count, call, log>>

MessagesSearchNO ==
    /\ At("messages", "search")
    /\ MayAnswerNO
    /\ Logged(<<"search", "NO">>)
    /\ Return(Status("NO"), mailers)
    /\ UNCHANGED <<tvars, count, call>>

MessagesSearchAbort ==
    /\ At("messages", "search")
    /\ AbortInTry("messages", "search", "search")

\* `return self.copy().get_messages(mailbox_name)`: the property has no
\* mailbox_name, so once copy() has returned the argument raises NameError.
MessagesRetry ==
    /\ At("messages", "retry")
    /\ Raise("NameError:mailbox_name", mailers)
    /\ UNCHANGED <<tvars, count, call, log>>

(***************************************************************************)
(* Mailer.get_messages                                                     *)
(***************************************************************************)
GetMessagesMailboxes ==
    /\ At("get_messages", "mailboxes")
    /\ CallMailboxes("get_messages")

GetMessagesSelect ==
    /\ At("get_messages", "check")
    /\ SelectMailbox("get_messages", "search")

GetMessagesSelectAbort ==
    /\ At("get_messages", "check")
    /\ Top.name \in ret.v
    /\ AbortInTry("get_messages", "check", "select")

GetMessagesInvalid ==
    /\ At("get_messages", "check")
    /\ Top.name \notin ret.v
    /\ Raise("ValueError:mailbox_name", mailers)
    /\ UNCHANGED <<tvars, count, call, log>>

GetMessagesSearch ==
    /\ At("get_messages", "search")
    /\ CallMessages("get_messages", "search", "reselect")

GetMessagesReselect ==
    /\ At("get_messages", "reselect")
    /\ SelectDefaultAndReturn("get_messages", ret)

GetMessagesReselectAbort ==
    /\ At("get_messages", "reselect")
    /\ AbortInTry("get_messages", "reselect", "select")

GetMessagesRetry ==
    /\ At("get_messages", "retry")
    /\ Retry("get_messages", "mailboxes", 0, 0)

(***************************************************************************)
(* Mailer.get_message                                                      *)
(***************************************************************************)
GetMessageMailboxes ==
    /\ At("get_message", "mailboxes")
    /\ CallMailboxes("get_message")

\* After the select: `if msg_id <= 0` decides whether the messages are counted.
GetMessageSelect ==
    /\ At("get_message", "check")
    /\ SelectMailbox("get_message", IF Top.a <= 0 THEN "count" ELSE "fetch")

GetMessageSelectAbort ==
    /\ At("get_message", "check")
    /\ Top.name \in ret.v
    /\ AbortInTry("get_message", "check", "select")

\* The message of the ValueError is an f-string that names method_name, which
\* is not defined: building it raises NameError.
GetMessageInvalid ==
    /\ At("get_message", "check")
    /\ Top.name \notin ret.v
    /\ Raise("NameError:method_name", mailers)
    /\ UNCHANGED <<tvars, count, call, log>>

GetMessageCount ==
    /\ At("get_message", "count")
    /\ CallMessages("get_message", "count", "add")

\* Mutant of GetMessageAdd: Python's indexing, where -1 is the last element
\* (msg_id += len(self.messages) + 1).
GetMessageAdd_python_index ==
    /\ At("get_message", "add")
    /\ stack' = WithTop([Top EXCEPT !.a = @ + LenMessages(ret) + 1, !.pc = "fetch"])
    /\ UNCHANGED <<tvars, count, mailers, ret, exc, call, result, log>>

\* msg_id += len(self.messages)
GetMessageAdd ==
    /\ At("get_message", "add")
    /\ stack' = WithTop([Top EXCEPT !.a = @ + LenMessages(ret), !.pc = "fetch"])
    /\ UNCHANGED <<tvars, count, mailers, ret, exc, call, result, log>>

\* fetch(str(msg_id)) is OK: return Message(data[0][1], mailbox=mailbox_name);
\* the default folder is not selected again on this path.
GetMessageFetch ==
    /\ At("get_message", "fetch")
    /\ MayAnswer
    /\ Exists(Self.sel, Top.a)
    /\ Return([t |-> "msg", v |-> Message(Raw(Self.sel, Top.a), Top.name)], mailers)
    /\ UNCHANGED <<tvars, count, call, log>>

\* fetch of an existing message is answered NO.
GetMessageFetchNO ==
    /\ At("get_message", "fetch")
    /\ MayAnswerNO
    /\ Exists(Self.sel, Top.a)
    /\ Logged(<<"fetch", "NO">>)
    /\ stack' = WithTop([Top EXCEPT !.v = Status("NO"), !.pc = "reselect"])
    /\ UNCHANGED <<tvars, count, mailers, ret, exc, call, result>>

\* fetch of a sequence number the folder does not have is answered NO.
GetMessageFetchMissing ==
    /\ At("get_message", "fetch")
    /\ MayAnswer
    /\ ~Exists(Self.sel, Top.a)
    /\ stack' = WithTop([Top EXCEPT !.v = Status("NO"), !.pc = "reselect"])
    /\ UNCHANGED <<tvars, count, mailers, ret, exc, call, result, log>>

GetMessageFetchAbort ==
    /\ At("get_message", "fetch")
    /\ AbortInTry("get_message", "fetch", "fetch")

GetMessageReselect ==
    /\ At("get_message", "reselect")
    /\ SelectDefaultAndReturn("get_message", Top.v)

GetMessageReselectAbort ==
    /\ At("get_message", "reselect")
    /\ AbortInTry("get_message", "reselect", "select")

\* `return self.copy().get_message(msg_id, mailbox_name)` with msg_id as it
\* is now.
GetMessageRetry ==
    /\ At("get_message", "retry")
    /\ Retry("get_message", "mailboxes", Top.a, 0)

(***************************************************************************)
(* Mailer.slice_messages                                                   *)
(***************************************************************************)
SliceMailboxes ==
    /\ At("slice_messages", "mailboxes")
    /\ CallMailboxes("slice_messages")

SliceSelect ==
    /\ At("slice_messages", "check")
    /\ SelectMailbox("slice_messages", "start")

SliceSelectAbort ==
    /\ At("slice_messages", "check")
    /\ Top.name \in ret.v
    /\ AbortInTry("slice_messages", "check", "select")

SliceInvalid ==
    /\ At("slice_messages", "check")
    /\ Top.name \notin ret.v
    /\ Raise("NameError:method_name", mailers)
    /\ UNCHANGED <<tvars, count, call, log>>

\* if start <= 0: start += len(self.messages)
SliceStart ==
    /\ At("slice_messages", "start")
    /\ IF Top.a <= 0
       THEN CallMessages("slice_messages", "start", "addstart")
       ELSE /\ stack' = Goto("end")
            /\ UNCHANGED <<tvars, count, mailers, ret, exc, call, result, log>>

SliceAddStart ==
    /\ At("slice_messages", "addstart")
    /\ stack' = WithTop([Top EXCEPT !.a = @ + LenMessages(ret), !.pc = "end"])
    /\ UNCHANGED <<tvars, count, mailers, ret, exc, call, result, log>>

\* if end <= 0: end += len(self.messages)
SliceEnd ==
    /\ At("slice_messages", "end")
    /\ IF Top.b <= 0
       THEN CallMessages("slice_messages", "end", "addend")
       ELSE /\ stack' = Goto("clamp")
            /\ UNCHANGED <<tvars, count, mailers, ret, exc, call, result, log>>

SliceAddEnd ==
    /\ At("slice_messages", "addend")
    /\ stack' = WithTop([Top EXCEPT !.b = @ + LenMessages(ret), !.pc = "clamp"])
    /\ UNCHANGED <<tvars, count, mailers, ret, exc, call, result, log>>

\* start = max(1, start), then self.messages is evaluated for the next line.
SliceClamp ==
    /\ At("slice_messages", "clamp")
    /\ stack' = Append(WithTop([Top EXCEPT !.a = Max(1, @), !.pc = "clamped"]),
                       Frame("messages", "search", Top.self, "", 0, 0, 1))
    /\ UNCHANGED <<tvars, count, mailers, ret, exc, call, result, log>>

\* end = min(len(self.messages), end)
SliceClamped ==
    /\ At("slice_messages", "clamped")
    /\ stack' = WithTop([Top EXCEPT !.b = Min(LenMessages(ret), @), !.pc = "fetch"])
    /\ UNCHANGED <<tvars, count, mailers, ret, exc, call, result, log>>

\* fetch(f'{start}:{end}') is OK: the kept items become Messages; the default
\* folder is not selected again on this path.  IMAP reads a:b with a > b as b:a.
SliceFetch ==
    /\ At("slice_messages", "fetch")
    /\ MayAnswer
    /\ Exists(Self.sel, Top.a) /\ Exists(Self.sel, Top.b)
    /\ \E tr \in Closings(Min(Top.a, Top.b), Max(Top.a, Top.b)) :
          Return([t |-> "msgs",
                  v |-> SliceKeep(FetchData(Self.sel, Min(Top.a, Top.b), Max(Top.a, Top.b), tr),
                                  1, Top.step, Top.name)],
                 mailers)
    /\ UNCHANGED <<tvars, count, call, log>>

SliceFetchNO ==
    /\ At("slice_messages", "fetch")
    /\ MayAnswerNO
    /\ Exists(Self.sel, Top.a) /\ Exists(Self.sel, Top.b)
    /\ Logged(<<"fetch", "NO">>)
    /\ stack' = WithTop([Top EXCEPT !.v = Status("NO"), !.pc = "reselect"])
    /\ UNCHANGED <<tvars, count, mailers, ret, exc, call, result>>

SliceFetchMissing ==
    /\ At("slice_messages", "fetch")
    /\ MayAnswer
    /\ ~(Exists(Self.sel, Top.a) /\ Exists(Self.sel, Top.b))
    /\ stack' = WithTop([Top EXCEPT !.v = Status("NO"), !.pc = "reselect"])
    /\ UNCHANGED <<tvars, count, mailers, ret, exc, call, result, log>>

SliceFetchAbort ==
    /\ At("slice_messages", "fetch")
    /\ AbortInTry("slice_messages", "fetch", "fetch")

SliceReselect ==
    /\ At("slice_messages", "reselect")
    /\ SelectDefaultAndReturn("slice_messages", Top.v)

SliceReselectAbort ==
    /\ At("slice_messages", "reselect")
    /\ AbortInTry("slice_messages", "reselect", "select")

\* `return self.copy().slice_messages(start, end, mailbox_name, step=step)`
\* with start and end as they are now.
SliceRetry ==
    /\ At("slice_messages", "retry")
    /\ Retry("slice_messages", "mailboxes", Top.a, Top.b)

(***************************************************************************)
(* The caller                                                              *)
(***************************************************************************)
\* call.dead records whether the session of the caller's Mailer had already
\* been dropped when the call was made.
Begin(op, name, a, b, step, frame) ==
    /\ call' = [op |-> op, name |-> name, a |-> a, b |-> b, step |-> step,
                dead |-> (mailers # <<>> /\ ~mailers[1].alive)]
    /\ stack' = <<frame>>
    /\ result' = NoResult
    /\ log' = <<>>
    /\ ret' = Nil
    /\ UNCHANGED <<tvars, count, exc>>

\* Mailer(username, password, host, port, default_box=d)
Construct ==
    /\ ~Running /\ mailers = <<>> /\ call = NoCall
    /\ \E d \in Names :
          /\ mailers' = <<NewMailer("user", "secret", "imap.example", 993, d)>>
          /\ Begin("Mailer", d, 0, 0, 1, Frame("__init__", "mailboxes", 1, "", 0, 0, 1))

CallGetMailboxes ==
    /\ ~Running /\ Len(mailers) = 1 /\ call = NoCall
    /\ Begin("get_mailboxes", "", 0, 0, 1, Frame("get_mailboxes", "list", 1, "", 0, 0, 1))
    /\ UNCHANGED mailers

CallGetMessages ==
    /\ ~Running /\ Len(mailers) = 1 /\ call = NoCall
    /\ \E f \in Names :
          Begin("get_messages", f, 0, 0, 1, Frame("get_messages", "mailboxes", 1, f, 0, 0, 1))
    /\ UNCHANGED mailers

CallGetMessage ==
    /\ ~Running /\ Len(mailers) = 1 /\ call = NoCall
    /\ \E f \in Names, n \in Ids :
          Begin("get_message", f, n, 0, 1, Frame("get_message", "mailboxes", 1, f, n, 0, 1))
    /\ UNCHANGED mailers

CallSliceMessages ==
    /\ ~Running /\ Len(mailers) = 1 /\ call = NoCall
    /\ \E f \in Names, s \in SliceIds, e \in SliceIds, st \in Steps :
          Begin("slice_messages", f, s, e, st,
                Frame("slice_messages", "mailboxes", 1, f, s, e, st))
    /\ UNCHANGED mailers

\* The caller is done with the value (or the exception) of its last call.
Discard ==
    /\ ~Running /\ call # NoCall
    /\ call' = NoCall
    /\ result' = NoResult
    /\ log' = <<>>
    /\ UNCHANGED <<tvars, count, mailers, stack, ret, exc>>

(***************************************************************************)
(* Specification                                                           *)
(***************************************************************************)
TInit == shared = FALSE /\ tsel = <<>> /\ tpc = <<>> /\ tres = <<>>

Init ==
    /\ count = Account
    /\ mailers = <<>>
    /\ stack = <<>>
    /\ ret = Nil
    /\ exc = ""
    /\ call = NoCall
    /\ result = NoResult
    /\ log = <<>>
    /\ TInit

Next ==
    \/ Construct
    \/ CallGetMailboxes
    \/ CallGetMessages
    \/ CallGetMessage
    \/ CallSliceMessages
    \/ Discard
    \/ Unwind
    \/ Copy
    \/ InitMailboxes
    \/ InitSelect
    \/ InitSelectAbort
    \/ InitInvalid
    \/ MailboxesList
    \/ MailboxesListNO
    \/ MailboxesListAbort
    \/ MailboxesRetry
    \/ MessagesSearch
    \/ MessagesSearchNO
    \/ MessagesSearchAbort
    \/ MessagesRetry
    \/ GetMessagesMailboxes
    \/ GetMessagesSelect
    \/ GetMessagesSelectAbort
    \/ GetMessagesInvalid
    \/ GetMessagesSearch
    \/ GetMessagesReselect
    \/ GetMessagesReselectAbort
    \/ GetMessagesRetry
    \/ GetMessageMailboxes
    \/ GetMessageSelect
    \/ GetMessageSelectAbort
    \/ GetMessageInvalid
    \/ GetMessageCount
    \/ GetMessageAdd
    \/ GetMessageFetch
    \/ GetMessageFetchNO
    \/ GetMessageFetchMissing
    \/ GetMessageFetchAbort
    \/ GetMessageReselect
    \/ GetMessageReselectAbort
    \/ GetMessageRetry
    \/ SliceMailboxes
    \/ SliceSelect
    \/ SliceSelectAbort
    \/ SliceInvalid
    \/ SliceStart
    \/ SliceAddStart
    \/ SliceEnd
    \/ SliceAddEnd
    \/ SliceClamp
    \/ SliceClamped
    \/ SliceFetch
    \/ SliceFetchNO
    \/ SliceFetchMissing
    \/ SliceFetchAbort
    \/ SliceReselect
    \/ SliceReselectAbort
    \/ SliceRetry

Spec == Init /\ [][Next]_allvars

(***************************************************************************)
(* Two threads calling get_messages, on one shared Mailer or on a Mailer   *)
(* each.  No session is dropped here and every status is OK; the default   *)
(* folder of every Mailer is INBOX.  A thread is preempted only between    *)
(* protocol calls.                                                         *)
(***************************************************************************)
Threads == {1, 2}
ThreadDefault == "INBOX"
SessionOf(t) == IF shared THEN 1 ELSE t

ThreadsInit ==
    /\ count = Account
    /\ mailers = <<>> /\ stack = <<>> /\ ret = Nil /\ exc = ""
    /\ call = NoCall /\ result = NoResult /\ log = <<>>
    /\ shared \in BOOLEAN
    /\ tsel = [s \in Threads |-> ThreadDefault]
    /\ tpc = [t \in Threads |-> [pc |-> "idle", name |-> ""]]
    /\ tres = [t \in Threads |-> Nil]

\* Thread t calls get_messages(f) for a folder of the account; the folder
\* list is fetched and contains f.
ThreadCall(t) ==
    /\ tpc[t].pc = "idle"
    /\ \E f \in Folders : tpc' = [tpc EXCEPT ![t] = [pc |-> "select", name |-> f]]
    /\ tres' = [tres EXCEPT ![t] = Nil]
    /\ UNCHANGED <<vars, shared, tsel>>

\* self.select(mailbox_name)
ThreadSelect(t) ==
    /\ tpc[t].pc = "select"
    /\ tsel' = [tsel EXCEPT ![SessionOf(t)] = tpc[t].name]
    /\ tpc' = [tpc EXCEPT ![t].pc = "search"]
    /\ UNCHANGED <<vars, shared, tres>>

\* msgs = self.messages: the search runs on the folder the session has
\* selected now.
ThreadSearch(t) ==
    /\ tpc[t].pc = "search"
    /\ tres' = [tres EXCEPT ![t] = SeqNums(tsel[SessionOf(t)])]
    /\ tpc' = [tpc EXCEPT ![t].pc = "reselect"]
    /\ UNCHANGED <<vars, shared, tsel>>

\* self.select(self.default_box); return msgs
ThreadReselect(t) ==
    /\ tpc[t].pc = "reselect"
    /\ tsel' = [tsel EXCEPT ![SessionOf(t)] = ThreadDefault]
    /\ tpc' = [tpc EXCEPT ![t].pc = "returned"]
    /\ UNCHANGED <<vars, shared, tres>>

\* The thread is done with the value.
ThreadDiscard(t) ==
    /\ tpc[t].pc = "returned"
    /\ tpc' = [tpc EXCEPT ![t] = [pc |-> "idle", name |-> ""]]
    /\ tres' = [tres EXCEPT ![t] = Nil]
    /\ UNCHANGED <<vars, shared, tsel>>

ThreadsNext ==
    \E t \in Threads :
        \/ ThreadCall(t)
        \/ ThreadSelect(t)
        \/ ThreadSearch(t)
        \/ ThreadReselect(t)
        \/ ThreadDiscard(t)

SpecThreads == ThreadsInit /\ [][ThreadsNext]_allvars

(***************************************************************************)
(* Properties                                                              *)
(***************************************************************************)
FolderOps == {"get_messages", "get_message", "slice_messages"}
MailerOps == FolderOps \cup {"get_mailboxes"}

\* The caller's top-level call is over and its outcome is in result.
Done == ~Running /\ call.op # "none"
Returned == Done /\ result.kind = "return"
RaisedOneOf(es) == Done /\ result.kind = "raise" /\ result.val.v \in es
AnyAbort == NumEvents("abort") + NumEvents("dead") > 0
SameValue(x, y) == x.t = y.t /\ x.v = y.v

\* C1 (as stated): when get_messages, get_message or slice_messages on a valid
\* folder returns and no session aborted during the call, the folder selected
\* on the Mailer's session is the default folder.
C1_DefaultSelectedOnReturn ==
    (Returned /\ call.op \in FolderOps /\ call.name \in Folders /\ ~AnyAbort)
        => mailers[1].sel = mailers[1].default_box

\* C2 (as stated): for n in 1..count, get_message(n - count - 1, f) returns the
\* message with sequence number n, the one get_message(n, f) returns.
C2_NegativeFormCountsFromMinusOne ==
    (Done /\ call.op = "get_message" /\ call.name \in Folders /\ log = <<>>
          /\ call.a < 0 /\ call.a >= 0 - count[call.name])
        => /\ result.kind = "return"
           /\ SameValue(result.val,
                        [t |-> "msg",
                         v |-> Message(Raw(call.name, call.a + count[call.name] + 1),
                                       call.name)])

\* C2 (amended): for n in 1..count, get_message(n, f) and get_message(n - count, f)
\* both fetch sequence number n: whenever such a call returns and no status
\* was NO, it returns the message n of f.
C2_NonPositiveFormCountsFromZero ==
    LET n == IF call.a > 0 THEN call.a ELSE call.a + count[call.name]
    IN  (Returned /\ call.op = "get_message" /\ call.name \in Folders
              /\ NumEvents("NO") = 0 /\ Exists(call.name, n))
            => SameValue(result.val,
                         [t |-> "msg", v |-> Message(Raw(call.name, n), call.name)])

\* C2 witness: a call with a negative msg_id has returned the message at
\* msg_id + count.
C2_Witness ==
    /\ Returned /\ call.op = "get_message" /\ call.name \in Folders
    /\ call.a < 0
    /\ result.val.t = "msg"
    /\ result.val.v.id = Raw(call.name, call.a + count[call.name])

\* The messages start, start + step, start + 2*step, ... of start..end.
RECURSIVE Stride(_, _, _, _, _)
Stride(f, start, end, step, mailbox) ==
    IF start > end THEN <<>>
    ELSE <<Message(Raw(f, start), mailbox)>> \o Stride(f, start + step, end, step, mailbox)

\* C3 (as stated): with 1 <= start <= end <= count and step >= 1, a
\* slice_messages call whose fetch is OK returns exactly the messages at
\* offsets 0, step, 2*step, ... of start..end, in order.
C3_SliceReturnsStride ==
    (Returned /\ call.op = "slice_messages" /\ call.name \in Folders
          /\ NumEvents("NO") = 0 /\ result.val.t = "msgs"
          /\ 1 <= call.a /\ call.a <= call.b /\ call.b <= count[call.name])
        => result.val.v = Stride(call.name, call.a, call.b, call.step, call.name)

\* What get_message(msg_id, f) returns on a session that never aborts and
\* answers OK wherever it can.
GetMessageUndisturbed(f, msg_id) ==
    LET n == IF msg_id <= 0 THEN msg_id + count[f] ELSE msg_id
    IN  IF Exists(f, n) THEN [t |-> "msg", v |-> Message(Raw(f, n), f)]
        ELSE Status("NO")

\* C4 (as stated, for an abort at fetch): a get_message call on a valid folder
\* whose session aborted at the fetch, retried on the new Mailer, returns what
\* the call returns on a session that never aborts.
C4_RetryAfterFetchAbortSameResult ==
    (Done /\ call.op = "get_message" /\ call.name \in Folders /\ ~call.dead
          /\ log = << <<"fetch", "abort">>, <<"copy", "new">> >>)
        => /\ result.kind = "return"
           /\ SameValue(result.val, GetMessageUndisturbed(call.name, call.a))

\* C5 (as stated): a session abort inside get_mailboxes, get_messages,
\* get_message or slice_messages never reaches the caller as an error,
\* neither as the abort itself nor as an error of its handler.
C5_AbortNeverSurfaces ==
    (Done /\ call.op \in MailerOps)
        => ~RaisedOneOf({"abort", "NameError:mailbox_name"})

\* C6 (as stated): get_messages, get_message and slice_messages with a folder
\* name that is not in get_mailboxes() all fail with the same ValueError and
\* do not retry.
C6_InvalidFolderSameError ==
    (Done /\ call.op \in FolderOps /\ call.name \notin Folders /\ ~AnyAbort)
        => /\ RaisedOneOf({"ValueError:mailbox_name"})
           /\ NumEvents("new") = 0

\* C7: a construction that succeeds had a default folder of the account and
\* leaves it selected; a construction with a default folder that the account
\* does not have fails with the ValueError about default_box; the Mailer that
\* copy() hands to a handler has self's credentials and its default folder
\* selected; a Mailer whose default folder does not exist never has a folder
\* selected.
C7_ConstructedHasDefaultSelected ==
    /\ (Returned /\ call.op = "Mailer")
           => /\ call.name \in Folders
              /\ Len(mailers) = 1
              /\ mailers[1].default_box = call.name
              /\ mailers[1].sel = call.name
    /\ (Done /\ call.op = "Mailer" /\ call.name \notin Folders)
           => /\ RaisedOneOf({"ValueError:default_box"})
              /\ mailers = <<>>
    /\ (Running /\ exc = "" /\ Top.pc = "retry" /\ ret.t = "mailer")
           => /\ mailers[ret.v].default_box \in Folders
              /\ mailers[ret.v].sel = mailers[ret.v].default_box
              /\ Credentials(mailers[ret.v]) = Credentials(Self)
    /\ \A i \in 1 .. Len(mailers) :
           mailers[i].default_box \notin Folders => mailers[i].sel = NoSel

\* C7 witness: copy() has handed a handler a Mailer whose default folder is
\* not INBOX, during a call on a Mailer that was constructed with it.
C7_Witness ==
    /\ Running /\ exc = "" /\ Top.pc = "retry" /\ ret.t = "mailer"
    /\ call.op \in MailerOps
    /\ mailers[ret.v].sel = "Sent"

\* The sequence numbers 1 .. count of folder f.
Numbers(f) == [i \in 1 .. count[f] |-> i]

\* C8: when each thread uses its own Mailer, a get_messages call returns the
\* sequence numbers of the folder it was called for.
C8_OwnMailerOwnFolder ==
    ~shared =>
        \A t \in Threads :
            tpc[t].pc \in {"reselect", "returned"}
                => (tres[t].t = "ids" /\ tres[t].v = Numbers(tpc[t].name))

\* C8 witness: on a shared Mailer, a get_messages call has returned the
\* sequence numbers of the folder of the other thread's call, which differ
\* from those of its own folder.
C8_Witness ==
    /\ shared
    /\ \E t \in Threads, u \in Threads :
          /\ t # u
          /\ tpc[t].pc = "returned"
          /\ tpc[u].pc \in {"search", "reselect"}
          /\ tpc[u].name # tpc[t].name
          /\ tres[t].v = Numbers(tpc[u].name)
          /\ tres[t].v # Numbers(tpc[t].name)

\* C9 (as stated, second half): a get_message call on a valid folder during
\* which sessions aborted, and only finitely many, ends by returning a result.
C9_AbortedCallReturns ==
    (Done /\ call.op = "get_message" /\ call.name \in Folders
          /\ NumEvents("abort") >= 1 /\ NumEvents("NO") = 0)
        => result.kind = "return"

\* C10 (as stated): a call on a Mailer whose session was dropped before opens
\* one new session.
C10_OneNewSessionPerCall ==
    (Done /\ call.op \in MailerOps /\ call.dead /\ NumEvents("abort") = 0)
        => NumEvents("new") = 1

\* A step leaves every Mailer's credentials alone, revives no dropped
\* session, and changes the selected folder of a Mailer only in a frame that
\* runs on that Mailer while its session is alive.
MailerFrame ==
    \A i \in 1 .. Len(mailers) :
        i <= Len(mailers') =>
            /\ Credentials(mailers'[i]) = Credentials(mailers[i])
            /\ mailers'[i].alive => mailers[i].alive
            /\ mailers'[i].sel # mailers[i].sel =>
                   (mailers[i].alive /\ Running /\ Top.self = i)

\* A call on a Mailer whose session was dropped before aborts at its first
\* protocol call, leaves the session dropped and opens at least one new
\* session: two when it is a folder operation on a valid folder that meets no
\* further abort and no NO.
DeadMailerCall ==
    (Done /\ call.op \in MailerOps /\ call.dead)
        => /\ log # <<>> /\ log[1] = <<"list", "dead">>
           /\ ~mailers[1].alive
           /\ NumEvents("new") >= 1
           /\ (call.op = "get_mailboxes" /\ NumEvents("abort") = 0)
                  => NumEvents("new") = 1
           /\ (call.op \in FolderOps /\ call.name \in Folders
                 /\ NumEvents("abort") = 0 /\ NumEvents("NO") = 0)
                  => NumEvents("new") = 2

\* C10 (amended): a retry leaves the original Mailer unchanged, and a call on
\* a Mailer whose session was dropped before aborts again and opens at least
\* one new session (two for a folder operation on a valid folder).
C10_OriginalUnchangedAndDeadStaysDead ==
    [][MailerFrame]_allvars /\ []DeadMailerCall

\* C10 witness: a get_message call on a Mailer whose session was dropped
\* before has returned a message after opening two new sessions.
C10_Witness ==
    /\ Returned /\ call.op = "get_message" /\ call.dead
    /\ result.val.t = "msg"
    /\ NumEvents("new") = 2
    /\ ~mailers[1].alive

====
